---- MODULE Spec2Model ----
(***************************************************************************)
(* Scheduling conflict detection of the Celebration event scheduler.       *)
(*                                                                         *)
(* EventValidationService (src/unnamed/part_010, with the one-time branch  *)
(* of the earlier UTC revision src/unnamed/part_009 and the local-time     *)
(* revision services/event-validation.service.ts) is modelled as pure      *)
(* operators; EventService (src/app/src/app/services/event.service.ts,     *)
(* lines 390-812) is modelled as a state machine of HTTP calls against the *)
(* backend event store.                                                    *)
(*                                                                         *)
(* Time: an instant is a number of minutes since 00:00 UTC of a Sunday     *)
(* (date 0), so that moment.utc(t).day() is (t \div 1440) % 7.  A          *)
(* start_time string is the record of what it spells: a validity flag, the *)
(* local wall-clock minutes and the UTC offset suffix.                     *)
(***************************************************************************)
EXTENDS Integers, Sequences, FiniteSets, TLC

VARIABLES
    tz,          \* host: local timezone offset in minutes (local = UTC + tz)
    candidate,   \* checker harness: the newEvent argument
    existing,    \* checker harness: the existingEvents argument
    now,         \* wall clock (instant) read by moment.utc()
    result,      \* checker harness: result of the latest call
    result9,     \* checker harness: result of the latest call, earlier UTC revision
    resultV0,    \* checker harness: result of the latest call, local-time revision
    first,       \* checker harness: result of the first call
    calledAt,    \* checker harness: wall clock of the latest call
    store,       \* backend: the persisted events, in creation order
    nextId,      \* backend: next id to assign
    calls,       \* EventService: the latest call of each of the two slots
    started,     \* number of calls made so far
    interleaved  \* history: some call started while another was in flight

vars == <<tz, candidate, existing, now, result, result9, resultV0, first, calledAt,
          store, nextId, calls, started, interleaved>>

checkVars == <<candidate, existing, now, result, result9, resultV0, first, calledAt>>
serviceVars == <<store, nextId, calls, started, interleaved>>

(***************************************************************************)
(* Bounds and input sets                                                   *)
(***************************************************************************)
MaxDate == 2          \* anchor dates 0..MaxDate (SU, MO, TU of the first week)
MaxTicks == 1         \* wall-clock steps taken in the checker harness

Dates == 0..MaxDate
TimesOfDay == {0, 30, 1410}
Durations == {30, 60, 1440, 1500}
DayLists == { <<"MO">>, <<"TU">>, <<"MO", "WE", "FR">>, <<"TU", "TH">> }

(***************************************************************************)
(* Values                                                                  *)
(***************************************************************************)
NULL == [kind |-> "null"]
NotCalled == [kind |-> "notcalled"]

NumId(n) == [type |-> "number", n |-> n]
NoId == [type |-> "undefined", n |-> 0]

\* Number.prototype.toString / String(id): the string form of an id
IdToString(id) == [type |-> "string", n |-> id.n]

MkEvent(id, name, start, dur, rec, days) ==
    [id |-> id, name |-> name, start_time |-> start, duration |-> dur,
     is_recurring |-> rec, recurring_days |-> days]

(***************************************************************************)
(* ISO-8601 strings and moment.utc getters                                 *)
(***************************************************************************)
\* Date#toISOString / moment#toISOString: the instant spelled with suffix Z
toISOString(t) == [valid |-> TRUE, local |-> t, off |-> 0]

\* moment(t).format('YYYY-MM-DDTHH:mm:ss.SSSZ'): local time with the host offset
formatLocal(t, offset) == [valid |-> TRUE, local |-> t + offset, off |-> offset]

\* moment(str) / moment.utc(str): the instant a string denotes
parseInstant(str) == str.local - str.off
isValid(str) == str.valid

utcDate(t) == t \div 1440
startOfDay(t) == (t \div 1440) * 1440
hours(t) == (t % 1440) \div 60
minutes(t) == t % 60
day(t) == (t \div 1440) % 7
isSameDay(a, b) == utcDate(a) = utcDate(b)

\* moment#diff(other, 'days'): whole days, truncated toward zero
diffDays(a, b) ==
    IF a >= b THEN (a - b) \div 1440 ELSE 0 - ((b - a) \div 1440)

dayOrder == <<"SU", "MO", "TU", "WE", "TH", "FR", "SA">>
reverseDayMap(n) == dayOrder[n + 1]

includes(list, x) == \E i \in 1..Len(list) : list[i] = x

indexOf(list, x) ==
    IF includes(list, x)
    THEN (CHOOSE i \in 1..Len(list) :
            list[i] = x /\ \A j \in 1..(i - 1) : list[j] # x) - 1
    ELSE 0 - 1

\* Array.prototype.join(', '): the tokens with the separator between them
RECURSIVE join(_)
join(list) ==
    IF Len(list) = 0 THEN <<>>
    ELSE IF Len(list) = 1 THEN <<list[1]>>
    ELSE <<list[1], ", ">> \o join(Tail(list))

\* Set insertion order of new Set<string>() followed by Array.from
addToSet(list, x) == IF includes(list, x) THEN list ELSE Append(list, x)

RECURSIVE expandFrom(_, _)
expandFrom(days, acc) ==
    IF Len(days) = 0 THEN acc
    ELSE LET d == days[1]
             currentIndex == indexOf(dayOrder, d)
             nextIndex == (currentIndex + 1) % 7
         IN expandFrom(Tail(days), addToSet(addToSet(acc, d), dayOrder[nextIndex + 1]))

expandMultiDayRecurringDays(days) == expandFrom(days, <<>>)

\* the filter tests the list it filters, so every day of list1 is "common"
getCommonDays_self(list1, list2) == SelectSeq(list1, LAMBDA d : includes(list1, d))

getCommonDays(list1, list2) == SelectSeq(list1, LAMBDA d : includes(list2, d))

\* only durations above 24 hours count as multi-day
isMultiDayEvent_over(duration) == duration > 1440

isMultiDayEvent(duration) == duration >= 1440

\* daysToCheck of a recurring existing event: its days, expanded when the
\* event is multi-day
expandedDaysToCheck(existingEvent) ==
    IF isMultiDayEvent(existingEvent.duration)
    THEN expandMultiDayRecurringDays(existingEvent.recurring_days)
    ELSE existingEvent.recurring_days

(***************************************************************************)
(* checkTimeOverlap: minute offsets from the start of start1's UTC day     *)
(***************************************************************************)
toTotalMinutes(time, referenceDate) ==
    (diffDays(time, referenceDate) * 24 * 60) + (hours(time) * 60) + minutes(time)

\* an end that falls on the other start counts as overlap
checkTimeOverlap_closed(start1, end1, start2, end2) ==
    LET referenceDate == startOfDay(start1)
        start1Mins == toTotalMinutes(start1, referenceDate)
        end1Mins == toTotalMinutes(end1, referenceDate)
        start2Mins == toTotalMinutes(start2, referenceDate)
        end2Mins == toTotalMinutes(end2, referenceDate)
    IN \/ start1Mins = start2Mins
       \/ (start1Mins >= start2Mins /\ start1Mins <= end2Mins)
       \/ (start2Mins >= start1Mins /\ start2Mins <= end1Mins)
       \/ (start1Mins <= start2Mins /\ end1Mins >= end2Mins)
       \/ (start2Mins <= start1Mins /\ end2Mins >= end1Mins)

checkTimeOverlap(start1, end1, start2, end2) ==
    LET referenceDate == startOfDay(start1)
        start1Mins == toTotalMinutes(start1, referenceDate)
        end1Mins == toTotalMinutes(end1, referenceDate)
        start2Mins == toTotalMinutes(start2, referenceDate)
        end2Mins == toTotalMinutes(end2, referenceDate)
    IN \/ start1Mins = start2Mins
       \/ (start1Mins >= start2Mins /\ start1Mins < end2Mins)
       \/ (start2Mins >= start1Mins /\ start2Mins < end1Mins)
       \/ (start1Mins <= start2Mins /\ end1Mins >= end2Mins)
       \/ (start2Mins <= start1Mins /\ end2Mins >= end1Mins)

(***************************************************************************)
(* formatConflictMessage                                                   *)
(***************************************************************************)
formatHHmm(t) == <<hours(t), minutes(t)>>

\* recurringDays is the optional second argument, <<>> when it is absent
\* or the empty string (both falsy)
formatConflictMessage(conflictingEvent, recurringDays) ==
    IF conflictingEvent.is_recurring
    THEN [kind |-> "recurring", name |-> conflictingEvent.name,
          days |-> IF recurringDays # <<>> THEN recurringDays
                   ELSE join(conflictingEvent.recurring_days),
          date |-> 0,
          from |-> formatHHmm(parseInstant(conflictingEvent.start_time)),
          to |-> formatHHmm(parseInstant(conflictingEvent.start_time)
                            + conflictingEvent.duration)]
    ELSE [kind |-> "date", name |-> conflictingEvent.name,
          days |-> <<>>,
          date |-> utcDate(parseInstant(conflictingEvent.start_time)),
          from |-> formatHHmm(parseInstant(conflictingEvent.start_time)),
          to |-> formatHHmm(parseInstant(conflictingEvent.start_time)
                            + conflictingEvent.duration)]

(***************************************************************************)
(* checkRecurringConflict (at least one of the two events is recurring)    *)
(* clock is the instant moment.utc() returns during the call.              *)
(***************************************************************************)
\* the anchor keeps its own calendar date instead of the reference date
onReferenceDate_ownDate(referenceDate, start) == start

\* only anchors before the reference date are projected onto it
onReferenceDate_pastOnly(referenceDate, start) ==
    IF start >= referenceDate THEN start
    ELSE referenceDate + (hours(start) * 60) + minutes(start)

\* referenceDate.clone().hours(h).minutes(m) of the start of an event
onReferenceDate(referenceDate, start) ==
    referenceDate + (hours(start) * 60) + minutes(start)

checkRecurringConflict(newEvent, existingEvent, clock) ==
    LET newEventStart == parseInstant(newEvent.start_time)
        existingEventStart == parseInstant(existingEvent.start_time)
        newEventIsMultiDay == isMultiDayEvent(newEvent.duration)
        existingEventIsMultiDay == isMultiDayEvent(existingEvent.duration)
    IN
    IF newEvent.is_recurring /\ existingEvent.is_recurring
    THEN \* Case 1: both events are recurring
        LET newEventDays == newEvent.recurring_days
            existingEventDays == existingEvent.recurring_days
            daysToCheck == expandedDaysToCheck(existingEvent)
            commonDays == getCommonDays(newEventDays, daysToCheck)
            referenceDate == startOfDay(clock)
            newStart == onReferenceDate(referenceDate, newEventStart)
            newEnd == newStart + newEvent.duration
            existingStart == onReferenceDate(referenceDate, existingEventStart)
            existingEnd == existingStart + existingEvent.duration
        IN IF Len(commonDays) > 0
              /\ checkTimeOverlap(newStart, newEnd, existingStart, existingEnd)
           THEN formatConflictMessage(existingEvent, join(commonDays))
           ELSE NULL
    ELSE IF newEvent.is_recurring
    THEN \* Case 2: only the new event is recurring
        LET existingDay == reverseDayMap(day(existingEventStart))
            nextDay == reverseDayMap((day(existingEventStart) + 1) % 7)
            daysToCheck == IF existingEventIsMultiDay
                           THEN <<existingDay, nextDay>> ELSE <<existingDay>>
            hasMatchingDay == \E i \in 1..Len(newEvent.recurring_days) :
                                 includes(daysToCheck, newEvent.recurring_days[i])
            referenceDate == startOfDay(clock)
            newStart == onReferenceDate(referenceDate, newEventStart)
            newEnd == newStart + newEvent.duration
            existingStart == onReferenceDate(referenceDate, existingEventStart)
            existingEnd == existingStart + existingEvent.duration
        IN IF hasMatchingDay
              /\ checkTimeOverlap(newStart, newEnd, existingStart, existingEnd)
           THEN formatConflictMessage(existingEvent, join(daysToCheck))
           ELSE NULL
    ELSE IF existingEvent.is_recurring
    THEN \* Case 3: only the existing event is recurring
        LET newDay == reverseDayMap(day(newEventStart))
            daysToCheck == expandedDaysToCheck(existingEvent)
            referenceDate == startOfDay(newEventStart)
            newStart == onReferenceDate(referenceDate, newEventStart)
            newEnd == newStart + newEvent.duration
            existingStart == onReferenceDate(referenceDate, existingEventStart)
            existingEnd == existingStart + existingEvent.duration
        IN IF includes(daysToCheck, newDay)
              /\ checkTimeOverlap(newStart, newEnd, existingStart, existingEnd)
           THEN formatConflictMessage(existingEvent, <<newDay>>)
           ELSE NULL
    ELSE NULL

(***************************************************************************)
(* checkEventPairConflict                                                  *)
(***************************************************************************)
\* the isSameDay test is dropped from the one-time branch
checkEventPairConflict_anyDay(newEvent, existingEvent, clock) ==
    IF ~newEvent.is_recurring /\ ~existingEvent.is_recurring
    THEN LET newStart == parseInstant(newEvent.start_time)
             existingStart == parseInstant(existingEvent.start_time)
             newEnd == newStart + newEvent.duration
             existingEnd == existingStart + existingEvent.duration
             hasTimeOverlap ==
                 \/ (newStart < existingEnd /\ newEnd > existingStart)
                 \/ (existingStart < newEnd /\ existingEnd > newStart)
         IN IF hasTimeOverlap
            THEN formatConflictMessage(existingEvent, <<>>)
            ELSE NULL
    ELSE checkRecurringConflict(newEvent, existingEvent, clock)

\* one event must start strictly inside the other
checkEventPairConflict_strict(newEvent, existingEvent, clock) ==
    IF ~newEvent.is_recurring /\ ~existingEvent.is_recurring
    THEN LET newStart == parseInstant(newEvent.start_time)
             existingStart == parseInstant(existingEvent.start_time)
             newEnd == newStart + newEvent.duration
             existingEnd == existingStart + existingEvent.duration
             hasTimeOverlap ==
                 \/ (newStart > existingStart /\ newStart < existingEnd)
                 \/ (existingStart > newStart /\ existingStart < newEnd)
         IN IF isSameDay(newStart, existingStart) /\ hasTimeOverlap
            THEN formatConflictMessage(existingEvent, <<>>)
            ELSE NULL
    ELSE checkRecurringConflict(newEvent, existingEvent, clock)

\* one-time events that only touch count as overlapping
checkEventPairConflict_touching(newEvent, existingEvent, clock) ==
    IF ~newEvent.is_recurring /\ ~existingEvent.is_recurring
    THEN LET newStart == parseInstant(newEvent.start_time)
             existingStart == parseInstant(existingEvent.start_time)
             newEnd == newStart + newEvent.duration
             existingEnd == existingStart + existingEvent.duration
             hasTimeOverlap ==
                 \/ (newStart <= existingEnd /\ newEnd >= existingStart)
                 \/ (existingStart <= newEnd /\ existingEnd >= newStart)
         IN IF isSameDay(newStart, existingStart) /\ hasTimeOverlap
            THEN formatConflictMessage(existingEvent, <<>>)
            ELSE NULL
    ELSE checkRecurringConflict(newEvent, existingEvent, clock)

\* an event that carries weekdays is treated as recurring
checkEventPairConflict_byDays(newEvent, existingEvent, clock) ==
    IF ~(newEvent.is_recurring \/ Len(newEvent.recurring_days) > 0)
          /\ ~(existingEvent.is_recurring
                   \/ Len(existingEvent.recurring_days) > 0)
    THEN LET newStart == parseInstant(newEvent.start_time)
             existingStart == parseInstant(existingEvent.start_time)
             newEnd == newStart + newEvent.duration
             existingEnd == existingStart + existingEvent.duration
             hasTimeOverlap ==
                 \/ (newStart < existingEnd /\ newEnd > existingStart)
                 \/ (existingStart < newEnd /\ existingEnd > newStart)
         IN IF isSameDay(newStart, existingStart) /\ hasTimeOverlap
            THEN formatConflictMessage(existingEvent, <<>>)
            ELSE NULL
    ELSE checkRecurringConflict(newEvent, existingEvent, clock)

checkEventPairConflict(newEvent, existingEvent, clock) ==
    IF ~newEvent.is_recurring /\ ~existingEvent.is_recurring
    THEN LET newStart == parseInstant(newEvent.start_time)
             existingStart == parseInstant(existingEvent.start_time)
             newEnd == newStart + newEvent.duration
             existingEnd == existingStart + existingEvent.duration
             hasTimeOverlap ==
                 \/ (newStart < existingEnd /\ newEnd > existingStart)
                 \/ (existingStart < newEnd /\ existingEnd > newStart)
         IN IF isSameDay(newStart, existingStart) /\ hasTimeOverlap
            THEN formatConflictMessage(existingEvent, <<>>)
            ELSE NULL
    ELSE checkRecurringConflict(newEvent, existingEvent, clock)

\* the shortcut fires for any two one-time events of the same UTC day
checkEventPairConflict_r9_sameDay(newEvent, existingEvent, clock) ==
    LET newStart == parseInstant(newEvent.start_time)
        existingStart == parseInstant(existingEvent.start_time)
        newEnd == newStart + newEvent.duration
        existingEnd == existingStart + existingEvent.duration
    IN
    IF ~newEvent.is_recurring /\ ~existingEvent.is_recurring
          /\ isSameDay(newStart, existingStart)
    THEN formatConflictMessage(existingEvent, <<>>)
    ELSE IF newEvent.is_recurring \/ existingEvent.is_recurring
    THEN checkRecurringConflict(newEvent, existingEvent, clock)
    ELSE NULL

\* The one-time branch of the earlier UTC revision: identical-start shortcut,
\* then minute offsets through checkTimeOverlap
checkEventPairConflict_r9(newEvent, existingEvent, clock) ==
    LET newStart == parseInstant(newEvent.start_time)
        existingStart == parseInstant(existingEvent.start_time)
        newEnd == newStart + newEvent.duration
        existingEnd == existingStart + existingEvent.duration
    IN
    IF ~newEvent.is_recurring /\ ~existingEvent.is_recurring
          /\ isSameDay(newStart, existingStart) /\ newStart = existingStart
    THEN formatConflictMessage(existingEvent, <<>>)
    ELSE IF newEvent.is_recurring \/ existingEvent.is_recurring
    THEN checkRecurringConflict(newEvent, existingEvent, clock)
    ELSE IF isSameDay(newStart, existingStart)
            /\ checkTimeOverlap(newStart, newEnd, existingStart, existingEnd)
    THEN formatConflictMessage(existingEvent, <<>>)
    ELSE NULL

(***************************************************************************)
(* checkEventConflicts                                                     *)
(***************************************************************************)
relevantEvents(newEvent, existingEvents) ==
    SelectSeq(existingEvents,
              LAMBDA e : ~(newEvent.id # NoId /\ e.id = newEvent.id))

\* the loop keeps going and returns the last conflict it finds
RECURSIVE firstConflict_last(_, _, _)
firstConflict_last(newEvent, events, clock) ==
    IF Len(events) = 0 THEN NULL
    ELSE LET conflict == checkEventPairConflict(newEvent, events[1], clock)
             later == firstConflict_last(newEvent, Tail(events), clock)
         IN IF later # NULL THEN later ELSE conflict

RECURSIVE firstConflict(_, _, _)
firstConflict(newEvent, events, clock) ==
    IF Len(events) = 0 THEN NULL
    ELSE LET conflict == checkEventPairConflict(newEvent, events[1], clock)
         IN IF conflict # NULL THEN conflict
            ELSE firstConflict(newEvent, Tail(events), clock)

checkEventConflicts(newEvent, existingEvents, clock) ==
    firstConflict(newEvent, relevantEvents(newEvent, existingEvents), clock)

RECURSIVE firstConflict_r9(_, _, _)
firstConflict_r9(newEvent, events, clock) ==
    IF Len(events) = 0 THEN NULL
    ELSE LET conflict == checkEventPairConflict_r9(newEvent, events[1], clock)
         IN IF conflict # NULL THEN conflict
            ELSE firstConflict_r9(newEvent, Tail(events), clock)

checkEventConflicts_r9(newEvent, existingEvents, clock) ==
    firstConflict_r9(newEvent, relevantEvents(newEvent, existingEvents), clock)

(***************************************************************************)
(* The revision of services/event-validation.service.ts that reads every   *)
(* start_time with moment(), in the zone of the host (offset minutes east  *)
(* of UTC), and compares the anchors of recurring events as instants.      *)
(***************************************************************************)
localDate(t, offset) == (t + offset) \div 1440
localDay(t, offset) == ((t + offset) \div 1440) % 7

formatConflictMessage_v0(existingEvent, dayArg, offset) ==
    LET start == parseInstant(existingEvent.start_time) + offset
    IN IF existingEvent.is_recurring
       THEN [kind |-> "recurring", name |-> existingEvent.name,
             days |-> IF dayArg # <<>> THEN dayArg
                      ELSE join(existingEvent.recurring_days),
             date |-> 0,
             from |-> formatHHmm(start),
             to |-> formatHHmm(start + existingEvent.duration)]
       ELSE [kind |-> "date", name |-> existingEvent.name,
             days |-> <<>>,
             date |-> start \div 1440,
             from |-> formatHHmm(start),
             to |-> formatHHmm(start + existingEvent.duration)]

\* the "normalized" moments are copies of the arguments: instants are compared
checkTimeOverlap_v0(start1, end1, start2, end2) ==
    \/ start1 = start2
    \/ (start1 <= start2 /\ end1 > start2)
    \/ (start2 <= start1 /\ end2 > start1)
    \/ (start1 <= start2 /\ end1 >= end2)
    \/ (start2 <= start1 /\ end2 >= end1)

checkRecurringConflict_v0(newEvent, existingEvent, offset) ==
    LET newEventStart == parseInstant(newEvent.start_time)
        existingEventStart == parseInstant(existingEvent.start_time)
        overlap == checkTimeOverlap_v0(newEventStart,
                                       newEventStart + newEvent.duration,
                                       existingEventStart,
                                       existingEventStart + existingEvent.duration)
    IN
    IF localDate(newEventStart, offset) = localDate(existingEventStart, offset)
          /\ newEventStart = existingEventStart
    THEN formatConflictMessage_v0(existingEvent, <<>>, offset)
    ELSE IF newEvent.is_recurring /\ existingEvent.is_recurring
    THEN LET commonDays == getCommonDays(newEvent.recurring_days,
                                         existingEvent.recurring_days)
         IN IF Len(commonDays) > 0 /\ overlap
            THEN formatConflictMessage_v0(existingEvent, join(commonDays), offset)
            ELSE NULL
    ELSE IF newEvent.is_recurring
    THEN LET existingDay == reverseDayMap(localDay(existingEventStart, offset))
         IN IF includes(newEvent.recurring_days, existingDay) /\ overlap
            THEN formatConflictMessage_v0(existingEvent, <<existingDay>>, offset)
            ELSE NULL
    ELSE IF existingEvent.is_recurring
    THEN LET newDay == reverseDayMap(localDay(newEventStart, offset))
         IN IF includes(existingEvent.recurring_days, newDay) /\ overlap
            THEN formatConflictMessage_v0(existingEvent, <<newDay>>, offset)
            ELSE NULL
    ELSE NULL

checkEventPairConflict_v0(newEvent, existingEvent, offset) ==
    LET newStart == parseInstant(newEvent.start_time)
        existingStart == parseInstant(existingEvent.start_time)
        recurringConflict ==
            IF newEvent.is_recurring \/ existingEvent.is_recurring
            THEN checkRecurringConflict_v0(newEvent, existingEvent, offset)
            ELSE NULL
    IN IF recurringConflict # NULL THEN recurringConflict
       ELSE IF ~newEvent.is_recurring /\ ~existingEvent.is_recurring
               /\ checkTimeOverlap_v0(newStart, newStart + newEvent.duration,
                                      existingStart,
                                      existingStart + existingEvent.duration)
       THEN formatConflictMessage_v0(existingEvent, <<>>, offset)
       ELSE NULL

RECURSIVE firstConflict_v0(_, _, _)
firstConflict_v0(newEvent, events, offset) ==
    IF Len(events) = 0 THEN NULL
    ELSE LET conflict == checkEventPairConflict_v0(newEvent, events[1], offset)
         IN IF conflict # NULL THEN conflict
            ELSE firstConflict_v0(newEvent, Tail(events), offset)

checkEventConflicts_v0(newEvent, existingEvents, offset) ==
    firstConflict_v0(newEvent, relevantEvents(newEvent, existingEvents), offset)

(***************************************************************************)
(* The arguments after a call.  The checker only reads its arguments:      *)
(* Array.prototype.filter returns a new array, the spread [...days] and    *)
(* new Set() are fresh objects, and forEach only reads the array it walks. *)
(***************************************************************************)
\* forEach pushes the following day onto the array it walks
daysAfterExpand_push(days) == expandMultiDayRecurringDays(days)

\* the days argument of expandMultiDayRecurringDays after the call
daysAfterExpand(days) == days

\* existingEvents[i] is handed to checkEventPairConflict by the loop
visited(newEvent, existingEvents, clock, i) ==
    /\ ~(newEvent.id # NoId /\ existingEvents[i].id = newEvent.id)
    /\ firstConflict(newEvent,
                     relevantEvents(newEvent, SubSeq(existingEvents, 1, i - 1)),
                     clock) = NULL

\* an existing event after the call: its day list went through
\* expandMultiDayRecurringDays when it was visited, recurring and multi-day
eventAfterCall(newEvent, existingEvents, clock, i) ==
    LET e == existingEvents[i]
    IN IF /\ visited(newEvent, existingEvents, clock, i)
          /\ e.is_recurring
          /\ isMultiDayEvent(e.duration)
       THEN [e EXCEPT !.recurring_days = daysAfterExpand(@)]
       ELSE e

\* the existingEvents array after the call: filter leaves it as it is
existingAfterCall(newEvent, existingEvents, clock) ==
    [i \in 1..Len(existingEvents) |->
        eventAfterCall(newEvent, existingEvents, clock, i)]

\* the newEvent object after the call: it is only read
candidateAfterCall(newEvent, existingEvents, clock) == newEvent

(***************************************************************************)
(* Checker harness: the arguments are drawn once, the checker is called at *)
(* the current wall clock, and the wall clock moves between calls.         *)
(***************************************************************************)
\* host offsets of the checker harness: UTC and UTC+01:00
CheckOffsets == {0, 60}

Instants == { (d * 1440) + t : d \in Dates, t \in TimesOfDay }

OneTimeEvents(id, name) ==
    { MkEvent(id, name, toISOString(t), dur, FALSE, <<>>) :
        t \in Instants, dur \in Durations }

RecurringEvents(id, name) ==
    { MkEvent(id, name, toISOString(x[1]), x[2], TRUE, x[3]) :
        x \in Instants \X Durations \X DayLists }

InputEvents(id, name) == OneTimeEvents(id, name) \cup RecurringEvents(id, name)

ServiceIdle ==
    /\ store = <<>>
    /\ nextId = 1
    /\ calls = <<>>
    /\ started = 0
    /\ interleaved = FALSE

InitCheck ==
    /\ tz \in CheckOffsets
    /\ candidate \in InputEvents(NoId, "A")
    /\ \E b \in InputEvents(NumId(1), "B") : existing = <<b>>
    /\ now = 0
    /\ result = NotCalled
    /\ result9 = NotCalled
    /\ resultV0 = NotCalled
    /\ first = NotCalled
    /\ calledAt = 0
    /\ ServiceIdle

CheckCall ==
    /\ calledAt < now \/ result = NotCalled
    /\ result' = checkEventConflicts(candidate, existing, now)
    /\ result9' = checkEventConflicts_r9(candidate, existing, now)
    /\ resultV0' = checkEventConflicts_v0(candidate, existing, tz)
    /\ first' = IF first = NotCalled THEN result' ELSE first
    /\ calledAt' = now
    /\ candidate' = candidateAfterCall(candidate, existing, now)
    /\ existing' = existingAfterCall(candidate, existing, now)
    /\ UNCHANGED <<tz, now, serviceVars>>

CheckTick ==
    /\ result # NotCalled
    /\ now < MaxTicks * 1500
    /\ now' = now + 1500
    /\ UNCHANGED <<tz, candidate, existing, result, result9, resultV0, first, calledAt, serviceVars>>

NextCheck == CheckCall \/ CheckTick

SpecCheck == InitCheck /\ [][NextCheck]_vars

(***************************************************************************)
(* List harness: the same calls, on a candidate that may carry the id of a *)
(* stored event and on lists of up to MaxList stored events, among them    *)
(* recurring events whose day list is malformed or absent.                 *)
(***************************************************************************)
MaxList == 2          \* longest existingEvents list

\* stored events: id, name, start, duration, recurrence
StoredPool ==
    { MkEvent(NumId(1), "P1", toISOString(1440), 60, FALSE, <<>>),
      MkEvent(NumId(2), "P2", toISOString(1470), 30, FALSE, <<>>),
      MkEvent(NumId(3), "P3", toISOString(1440), 1440, TRUE, <<"MO">>),
      MkEvent(NumId(4), "P4", toISOString(1440), 1440, TRUE, <<"XX">>),
      MkEvent(NumId(5), "P5", toISOString(1440), 60, TRUE, <<>>) }

CandidateIds == { NoId, NumId(1), NumId(3) }

CandidatePool(id) ==
    { MkEvent(id, "K1", toISOString(1440), 60, FALSE, <<>>),
      MkEvent(id, "K2", toISOString(0), 30, TRUE, <<"SU">>),
      MkEvent(id, "K3", toISOString(1440), 30, TRUE, <<"XX">>),
      MkEvent(id, "K4", toISOString(1440), 30, TRUE, <<"MO">>),
      MkEvent(id, "K5", toISOString(2880), 30, FALSE, <<>>),
      MkEvent(id, "K6", toISOString(1440), 30, TRUE, <<>>) }

\* lists of distinct stored events, in any order
StoredLists ==
    { l \in UNION { [1..n -> StoredPool] : n \in 0..MaxList } :
        \A i, j \in 1..Len(l) : i # j => l[i] # l[j] }

InitList ==
    /\ tz = 0
    /\ \E id \in CandidateIds : candidate \in CandidatePool(id)
    /\ existing \in StoredLists
    /\ now = 0
    /\ result = NotCalled
    /\ result9 = NotCalled
    /\ resultV0 = NotCalled
    /\ first = NotCalled
    /\ calledAt = 0
    /\ ServiceIdle

SpecList == InitList /\ [][NextCheck]_vars

(***************************************************************************)
(* Overlap harness: two time ranges are drawn once and checkTimeOverlap is *)
(* applied to them; the ranges are those of two one-time events.           *)
(***************************************************************************)
Boolean(b) == [kind |-> "boolean", value |-> b]

InitOverlap ==
    /\ tz = 0
    /\ candidate \in OneTimeEvents(NoId, "A")
    /\ \E b \in OneTimeEvents(NumId(1), "B") : existing = <<b>>
    /\ now = 0
    /\ result = NotCalled
    /\ result9 = NotCalled
    /\ resultV0 = NotCalled
    /\ first = NotCalled
    /\ calledAt = 0
    /\ ServiceIdle

OverlapCall ==
    /\ result = NotCalled
    /\ result' = Boolean(checkTimeOverlap(
                    parseInstant(candidate.start_time),
                    parseInstant(candidate.start_time) + candidate.duration,
                    parseInstant(existing[1].start_time),
                    parseInstant(existing[1].start_time) + existing[1].duration))
    /\ UNCHANGED <<tz, candidate, existing, now, result9, resultV0, first,
                   calledAt, serviceVars>>

NextOverlap == OverlapCall

SpecOverlap == InitOverlap /\ [][NextOverlap]_vars

(***************************************************************************)
(* Expansion harness: two recurring events starting at the same time of    *)
(* day, with day lists that reach the end of the week.                     *)
(***************************************************************************)
ExpandDayLists ==
    { <<"SA">>, <<"SU">>, <<"FR", "SA">>, <<"MO", "TU">>, <<"WE">>,
      <<"SU", "MO", "TU", "WE", "TH", "FR", "SA">> }

ExpandDurations == {60, 1439, 1440, 1500}

ExpandEvents(id, name) ==
    { MkEvent(id, name, toISOString(0), x[1], TRUE, x[2]) :
        x \in ExpandDurations \X ExpandDayLists }

InitExpand ==
    /\ tz = 0
    /\ candidate \in ExpandEvents(NoId, "A")
    /\ \E b \in ExpandEvents(NumId(1), "B") : existing = <<b>>
    /\ now = 0
    /\ result = NotCalled
    /\ result9 = NotCalled
    /\ resultV0 = NotCalled
    /\ first = NotCalled
    /\ calledAt = 0
    /\ ServiceIdle

SpecExpand == InitExpand /\ [][NextCheck]_vars

(***************************************************************************)
(* EventService against the backend event store.                           *)
(*                                                                         *)
(* calls[s] is the latest call made by the calendar component in slot s:   *)
(* it waits for its GET ("fetching", "fetchingOne"), then for its          *)
(* POST/PUT/DELETE ("writing"), and ends by handing the subscriber a value *)
(* ("done") or an error ("failed").  A call takes the first slot unless a  *)
(* call is in flight there, so at most two calls are in flight at a time.  *)
(* The in-memory cache this.events is written by the service but never     *)
(* read by the conflict check, and is left out.                            *)
(***************************************************************************)
MaxStarted == 3       \* calls started in one behaviour

Slots == {1, 2}
HostOffsets == {60}

\* what the event dialog hands to createEvent / updateEvent
DialogEvent(name, start, dur, rec, days) ==
    MkEvent(NoId, name, toISOString(start), dur, rec, days)

ServiceEvents ==
    { DialogEvent("E1", 1440, 60, FALSE, <<>>),
      DialogEvent("E2", 1470, 30, FALSE, <<>>),
      DialogEvent("E3", 2850, 60, FALSE, <<>>),
      DialogEvent("E4", 2880, 30, FALSE, <<>>),
      DialogEvent("E5", 1440, 1500, TRUE, <<"MO">>) }

\* what a drag or a resize hands to updateEventTime
DragStarts == {1440, 2880}
DragDurations == {90}

\* the error objects a subscriber can receive
NoError == [class |-> "none"]
EventConflictError(conflictDetails) ==
    [class |-> "EventConflictError", conflictDetails |-> conflictDetails]
Error(message) == [class |-> "Error", message |-> message]
HttpErrorResponse == [class |-> "HttpErrorResponse"]

\* fetch is the outcome of the GET of the event list: "none", "ok", "failed"
IdleCall ==
    [op |-> "none", pc |-> "idle", id |-> NoId, event |-> NULL,
     fetched |-> <<>>, fetch |-> "none", verdict |-> NotCalled,
     error |-> "none", thrown |-> NoError]

InFlight(c) == c.pc \in {"fetching", "fetchingOne", "writing"}

CanStart(s) ==
    /\ started < MaxStarted
    /\ ~InFlight(calls[s])
    /\ s = 2 => InFlight(calls[1])

OthersInFlight(s) == \E o \in Slots \ {s} : InFlight(calls[o])

\* Array.prototype.join(','): the comma-separated day string of the PUT payload
RECURSIVE joinComma(_)
joinComma(list) ==
    IF Len(list) = 0 THEN <<>>
    ELSE IF Len(list) = 1 THEN <<list[1]>>
    ELSE <<list[1], ",">> \o joinComma(Tail(list))

\* backend: the stored day list of a payload's day value
storedDays(days) == SelectSeq(days, LAMBDA d : d # ",")

\* backend: the index in the store of the event a URL id names, 0 if none
indexOfId(events, id) ==
    IF \E i \in 1..Len(events) : events[i].id.n = id.n
    THEN CHOOSE i \in 1..Len(events) : events[i].id.n = id.n
    ELSE 0

removeAt(events, i) ==
    [j \in 1..(Len(events) - 1) |-> IF j < i THEN events[j] ELSE events[j + 1]]

\* the id the calendar passes: EventApi.id of a displayed event
calendarId(e) == IdToString(e.id)

(* createEvent, up to the GET it subscribes to *)
StartCreate(s, e) ==
    /\ CanStart(s)
    /\ calls' = [calls EXCEPT ![s] =
         IF ~isValid(e.start_time)
         THEN [IdleCall EXCEPT !.op = "create", !.pc = "failed", !.error = "invalid",
                               !.thrown = Error("Invalid start time provided for event"),
                               !.event = e]
         ELSE [IdleCall EXCEPT !.op = "create", !.pc = "fetching",
                 !.event = [e EXCEPT !.start_time =
                              formatLocal(parseInstant(e.start_time), tz)]]]
    /\ started' = started + 1
    /\ interleaved' = (interleaved \/ OthersInFlight(s))
    /\ UNCHANGED <<tz, checkVars, store, nextId>>

(* updateEvent, up to the GET it subscribes to *)
StartUpdate(s, id, e) ==
    /\ CanStart(s)
    /\ calls' = [calls EXCEPT ![s] =
         IF ~isValid(e.start_time)
         THEN [IdleCall EXCEPT !.op = "update", !.pc = "failed", !.error = "invalid",
                               !.thrown = Error("Invalid start time provided for event"),
                               !.id = id, !.event = e]
         ELSE [IdleCall EXCEPT !.op = "update", !.pc = "fetching", !.id = id,
                 !.event = [e EXCEPT !.id = id,
                                     !.start_time =
                                       formatLocal(parseInstant(e.start_time), tz)]]]
    /\ started' = started + 1
    /\ interleaved' = (interleaved \/ OthersInFlight(s))
    /\ UNCHANGED <<tz, checkVars, store, nextId>>

\* updateEvent: eventList.events.filter(e => e.id !== id)
filteredEvents(events, id) == SelectSeq(events, LAMBDA e : e.id # id)

\* the list a create or update call hands to checkEventConflicts
checkedList(c, events) ==
    IF c.op = "update" THEN filteredEvents(events, c.id) ELSE events

\* the write is issued whatever the check returned
FetchOk_ignoreConflict(s) ==
    /\ calls[s].pc = "fetching"
    /\ LET c == calls[s]
           list == checkedList(c, store)
           conflict == checkEventConflicts(c.event, list, now)
       IN calls' = [calls EXCEPT ![s] =
            [c EXCEPT !.pc = "writing", !.fetched = store, !.fetch = "ok",
                      !.verdict = conflict]]
    /\ UNCHANGED <<tz, checkVars, store, nextId, started, interleaved>>

\* the conflict is thrown as a plain Error carrying the message
FetchOk_plainError(s) ==
    /\ calls[s].pc = "fetching"
    /\ LET c == calls[s]
           list == checkedList(c, store)
           conflict == checkEventConflicts(c.event, list, now)
       IN calls' = [calls EXCEPT ![s] =
            IF conflict # NULL
            THEN [c EXCEPT !.pc = "failed", !.error = "conflict",
                           !.thrown = Error(conflict),
                           !.fetched = store, !.fetch = "ok", !.verdict = conflict]
            ELSE [c EXCEPT !.pc = "writing", !.fetched = store, !.fetch = "ok",
                           !.verdict = NULL]]
    /\ UNCHANGED <<tz, checkVars, store, nextId, started, interleaved>>

\* the check is made on what the call held before the GET was answered
FetchOk_staleList(s) ==
    /\ calls[s].pc = "fetching"
    /\ LET c == calls[s]
           list == checkedList(c, c.fetched)
           conflict == checkEventConflicts(c.event, list, now)
       IN calls' = [calls EXCEPT ![s] =
            IF conflict # NULL
            THEN [c EXCEPT !.pc = "failed", !.error = "conflict",
                           !.thrown = EventConflictError(conflict),
                           !.fetch = "ok", !.verdict = conflict]
            ELSE [c EXCEPT !.pc = "writing", !.fetch = "ok", !.verdict = NULL]]
    /\ UNCHANGED <<tz, checkVars, store, nextId, started, interleaved>>

(* switchMap of createEvent / updateEvent: the GET answered with the list *)
FetchOk(s) ==
    /\ calls[s].pc = "fetching"
    /\ LET c == calls[s]
           list == checkedList(c, store)
           conflict == checkEventConflicts(c.event, list, now)
       IN calls' = [calls EXCEPT ![s] =
            IF conflict # NULL
            THEN [c EXCEPT !.pc = "failed", !.error = "conflict",
                           !.thrown = EventConflictError(conflict),
                           !.fetched = store, !.fetch = "ok", !.verdict = conflict]
            ELSE [c EXCEPT !.pc = "writing", !.fetched = store, !.fetch = "ok",
                           !.verdict = NULL]]
    /\ UNCHANGED <<tz, checkVars, store, nextId, started, interleaved>>

\* catchError answers a failed GET with an empty list and the call goes on
FetchFail_emptyList(s) ==
    /\ calls[s].pc = "fetching"
    /\ calls' = [calls EXCEPT ![s] =
         [@ EXCEPT !.pc = "writing", !.fetch = "failed", !.fetched = <<>>,
                   !.verdict = checkEventConflicts(calls[s].event, <<>>, now)]]
    /\ UNCHANGED <<tz, checkVars, store, nextId, started, interleaved>>

(* getEvents catchError: the GET failed *)
FetchFail(s) ==
    /\ calls[s].pc = "fetching"
    /\ calls' = [calls EXCEPT ![s] =
         [@ EXCEPT !.pc = "failed", !.error = "fetch", !.fetch = "failed",
                   !.thrown = Error("Failed to fetch events")]]
    /\ UNCHANGED <<tz, checkVars, store, nextId, started, interleaved>>

(* updateEventTime, up to the GET /events/{id} it subscribes to *)
StartUpdateTime(s, id, newStartTime, newDuration) ==
    /\ CanStart(s)
    /\ calls' = [calls EXCEPT ![s] =
         [IdleCall EXCEPT !.op = "updateTime", !.pc = "fetchingOne", !.id = id,
            !.event = MkEvent(id, "", newStartTime, newDuration, FALSE, <<>>)]]
    /\ started' = started + 1
    /\ interleaved' = (interleaved \/ OthersInFlight(s))
    /\ UNCHANGED <<tz, checkVars, store, nextId>>

(* switchMap of updateEventTime: the payload is built and the PUT issued *)
GetByIdOk(s) ==
    /\ calls[s].pc = "fetchingOne"
    /\ indexOfId(store, calls[s].id) # 0
    /\ LET c == calls[s]
           existingEvent == store[indexOfId(store, c.id)]
           updatePayload ==
               MkEvent(existingEvent.id, existingEvent.name, c.event.start_time,
                       c.event.duration, existingEvent.is_recurring,
                       joinComma(existingEvent.recurring_days))
       IN calls' = [calls EXCEPT ![s] =
            [c EXCEPT !.pc = "writing", !.event = updatePayload]]
    /\ UNCHANGED <<tz, checkVars, store, nextId, started, interleaved>>

(* getEventById catchError: no such event, or the GET failed *)
GetByIdFail(s) ==
    /\ calls[s].pc = "fetchingOne"
    /\ calls' = [calls EXCEPT ![s] =
         [@ EXCEPT !.pc = "failed", !.error = "fetch",
                   !.thrown = Error("Failed to retrieve event details")]]
    /\ UNCHANGED <<tz, checkVars, store, nextId, started, interleaved>>

(* deleteEvent: the DELETE is issued at once *)
StartDelete(s, id) ==
    /\ CanStart(s)
    /\ calls' = [calls EXCEPT ![s] =
         [IdleCall EXCEPT !.op = "delete", !.pc = "writing", !.id = id]]
    /\ started' = started + 1
    /\ interleaved' = (interleaved \/ OthersInFlight(s))
    /\ UNCHANGED <<tz, checkVars, store, nextId>>

\* backend: the event a POST or PUT body is stored as under id
storedEvent(id, body) ==
    MkEvent(id, body.name, body.start_time, body.duration, body.is_recurring,
            storedDays(body.recurring_days))

(* backend: the POST, PUT or DELETE of a call is committed and answered *)
WriteOk(s) ==
    /\ calls[s].pc = "writing"
    /\ LET c == calls[s]
           i == indexOfId(store, c.id)
       IN /\ c.op # "create" => i # 0
          /\ store' =
               IF c.op = "create" THEN Append(store, storedEvent(NumId(nextId), c.event))
               ELSE IF c.op = "delete" THEN removeAt(store, i)
               ELSE [store EXCEPT ![i] = storedEvent(store[i].id, c.event)]
          /\ nextId' = IF c.op = "create" THEN nextId + 1 ELSE nextId
          /\ calls' = [calls EXCEPT ![s] = [c EXCEPT !.pc = "done"]]
    /\ UNCHANGED <<tz, checkVars, started, interleaved>>

(* backend: the POST, PUT or DELETE is refused or lost; catchError rethrows *)
WriteFail(s) ==
    /\ calls[s].pc = "writing"
    /\ calls' = [calls EXCEPT ![s] =
         [@ EXCEPT !.pc = "failed", !.error = "http",
                   !.thrown = IF calls[s].op = "delete"
                              THEN Error("Failed to delete event")
                              ELSE IF calls[s].op = "updateTime"
                              THEN Error("Failed to update event time")
                              ELSE HttpErrorResponse]]
    /\ UNCHANGED <<tz, checkVars, store, nextId, started, interleaved>>

Init ==
    /\ tz \in HostOffsets
    /\ candidate = NULL
    /\ existing = <<>>
    /\ now = 0
    /\ result = NotCalled
    /\ result9 = NotCalled
    /\ resultV0 = NotCalled
    /\ first = NotCalled
    /\ calledAt = 0
    /\ store = <<>>
    /\ nextId = 1
    /\ calls = [s \in Slots |-> IdleCall]
    /\ started = 0
    /\ interleaved = FALSE

\* the calls and responses possible when createEvent and updateEvent are
\* handed the events of the set events
NextWith(events) ==
    \E s \in Slots :
        \/ \E e \in events : StartCreate(s, e)
        \/ \E i \in 1..Len(store), e \in events :
              StartUpdate(s, calendarId(store[i]), e)
        \/ \E i \in 1..Len(store), t \in DragStarts, d \in DragDurations :
              StartUpdateTime(s, calendarId(store[i]), toISOString(t), d)
        \/ \E i \in 1..Len(store) : StartDelete(s, calendarId(store[i]))
        \/ FetchOk(s)
        \/ FetchFail(s)
        \/ GetByIdOk(s)
        \/ GetByIdFail(s)
        \/ WriteOk(s)
        \/ WriteFail(s)

Next == NextWith(ServiceEvents)

Spec == Init /\ [][Next]_vars

(***************************************************************************)
(* EventService handed events the spec calls invalid input: createEvent    *)
(* and updateEvent are public methods of an injectable service and take    *)
(* any EventCreate.                                                        *)
(***************************************************************************)
\* a string moment() cannot parse
UnparseableString == [valid |-> FALSE, local |-> 0, off |-> 0]

ValidationEvents ==
    { DialogEvent("E1", 1440, 60, FALSE, <<>>),
      DialogEvent("E2", 1470, 30, FALSE, <<>>),
      MkEvent(NoId, "E6", UnparseableString, 30, FALSE, <<>>),
      MkEvent(NoId, "E7", toISOString(2880), 0, FALSE, <<>>),
      MkEvent(NoId, "E8", toISOString(4320), 30, TRUE, <<>>) }

NextValidation == NextWith(ValidationEvents)

SpecValidation == Init /\ [][NextValidation]_vars

(***************************************************************************)
(* Vocabulary of the properties                                            *)
(***************************************************************************)
A == candidate
B == existing[1]
startOf(e) == parseInstant(e.start_time)
endOf(e) == startOf(e) + e.duration
timeOfDay(e) == startOf(e) % 1440
daySet(e) == { e.recurring_days[i] : i \in 1..Len(e.recurring_days) }
dayIndex(d) == CHOOSE i \in 0..6 : dayOrder[i + 1] = d
dayAfter(d) == dayOrder[((dayIndex(d) + 1) % 7) + 1]
Called == result # NotCalled
BothOneTime == ~A.is_recurring /\ ~B.is_recurring
BothRecurring == A.is_recurring /\ B.is_recurring
dayOrderSet == { dayOrder[i] : i \in 1..7 }
\* the tokens a conflict message spells in its day part
namedDays(msg) == { msg.days[i] : i \in 1..Len(msg.days) } \ {", "}

\* C2: two one-time events conflict exactly when they start on the same UTC
\* date and their half-open intervals [start, start+duration) intersect.
C2_OneTimeIff ==
    (Called /\ BothOneTime) =>
        ((result # NULL) <=>
            (/\ utcDate(startOf(A)) = utcDate(startOf(B))
             /\ startOf(A) < endOf(B)
             /\ startOf(B) < endOf(A)))

C2_Witness ==
    /\ Called /\ BothOneTime
    /\ result # NULL
    /\ startOf(A) = startOf(B) + 30
    /\ B.duration = 60 /\ A.duration = 30

\* C3: two one-time events with the identical start instant always conflict,
\* for every pair of positive durations, in both UTC revisions.
C3_IdenticalStart ==
    (Called /\ BothOneTime /\ startOf(A) = startOf(B)) =>
        (result # NULL /\ result9 # NULL)

C3_Witness ==
    /\ Called /\ BothOneTime
    /\ startOf(A) = startOf(B)
    /\ A.duration # B.duration
    /\ result # NULL /\ result9 # NULL

\* C4: recurring events with disjoint recurringDays never conflict, whatever
\* their durations and anchors, in the UTC revision and in the local-time one.
C4_DisjointDays ==
    (Called /\ BothRecurring /\ daySet(A) \cap daySet(B) = {}) =>
        (result = NULL /\ resultV0 = NULL)

\* the part of C4 that fails in the UTC revision
C4_DisjointDaysUtc ==
    (Called /\ BothRecurring /\ daySet(A) \cap daySet(B) = {}) => result = NULL

\* the part of C4 that fails in the local-time revision
C4_DisjointDaysLocal ==
    (Called /\ BothRecurring /\ daySet(A) \cap daySet(B) = {}) => resultV0 = NULL

\* what the UTC revision guarantees: recurring events never conflict when no
\* recurring day of the candidate is a recurring day of the existing event
\* or, the existing event lasting 1440 minutes or more, the weekday after one.
C4_DisjointExpandedDays ==
    (/\ Called /\ BothRecurring
     /\ daySet(A) \cap daySet(B) = {}
     /\ B.duration >= 1440 => daySet(A) \cap { dayAfter(d) : d \in daySet(B) } = {}) =>
        result = NULL

C4_Witness ==
    /\ Called /\ BothRecurring
    /\ daySet(A) \cap daySet(B) = {}
    /\ B.duration >= 1440 /\ A.duration >= 1440
    /\ daySet(A) \cap { dayAfter(d) : d \in daySet(B) } = {}
    /\ A.start_time = B.start_time
    /\ result = NULL

\* recurring events that share a weekday and whose UTC time-of-day intervals
\* overlap
SharedDayOverlap ==
    /\ Called /\ BothRecurring
    /\ daySet(A) \cap daySet(B) # {}
    /\ timeOfDay(A) < timeOfDay(B) + B.duration
    /\ timeOfDay(B) < timeOfDay(A) + A.duration

\* the result is a conflict that names a weekday of both day sets
NamesSharedDay(r) ==
    /\ r # NULL
    /\ r.kind = "recurring"
    /\ namedDays(r) \cap daySet(A) \cap daySet(B) # {}

\* what the UTC revision guarantees: C5 for its result
C5_SharedDayOverlap ==
    SharedDayOverlap => NamesSharedDay(result)

\* C5: recurring events that share a weekday and whose time-of-day intervals
\* overlap conflict, and the message names a weekday of both day sets,
\* whatever the calendar dates of the two anchors, in the UTC revision and
\* in the local-time one.
C5_SharedDayOverlapEveryRevision ==
    SharedDayOverlap => (NamesSharedDay(result) /\ NamesSharedDay(resultV0))

C5_Witness ==
    /\ Called /\ BothRecurring
    /\ daySet(A) \cap daySet(B) # {}
    /\ utcDate(startOf(A)) # utcDate(startOf(B))
    /\ timeOfDay(A) < timeOfDay(B) /\ timeOfDay(B) < timeOfDay(A) + A.duration
    /\ result # NULL
    /\ namedDays(result) \cap daySet(A) \cap daySet(B) # {}

\* r recurs on MO for 1500 minutes and the one-time event o starts on the
\* Tuesday after r's anchor, in the first hour and inside the Monday tail
MondayTail(r, o) ==
    /\ r.is_recurring /\ r.recurring_days = <<"MO">> /\ r.duration = 1500
    /\ day(startOf(r)) = 1
    /\ ~o.is_recurring
    /\ utcDate(startOf(o)) = utcDate(startOf(r)) + 1
    /\ timeOfDay(o) < 60
    /\ timeOfDay(o) < (timeOfDay(r) + r.duration) - 1440

\* C6: a recurring event on MO lasting 1500 minutes conflicts with a one-time
\* event on the following Tuesday that starts in the first 60 minutes of the
\* day, inside the tail of the Monday occurrence, in either role.
C6_MultiDayBothRoles ==
    (Called /\ (MondayTail(A, B) \/ MondayTail(B, A))) => result # NULL

\* C10: a call returns what the first call with the same arguments returned,
\* whatever the wall clock of either call.
C10_Deterministic ==
    Called => result = first

C10_Witness ==
    /\ Called
    /\ calledAt > 0
    /\ A.is_recurring
    /\ result # NULL
    /\ result = first

\* the arguments of the latest call are those the harness drew
ArgumentsKept == candidate' = candidate /\ existing' = existing

Malformed(e) ==
    /\ e.is_recurring
    /\ \/ Len(e.recurring_days) = 0
       \/ \E i \in 1..Len(e.recurring_days) : ~includes(dayOrder, e.recurring_days[i])

\* the latest call had to evaluate a malformed event
MalformedInvolved ==
    /\ Called
    /\ \/ Malformed(candidate) /\ Len(relevantEvents(candidate, existing)) > 0
       \/ \E i \in 1..Len(existing) :
             visited(candidate, existing, calledAt, i) /\ Malformed(existing[i])

\* the weekdays an event can occupy: its well-formed tokens and, when it is
\* multi-day, the weekdays after them
occupiedDays(e) ==
    LET tokens == { d \in daySet(e) : includes(dayOrder, d) }
    IN tokens \cup (IF isMultiDayEvent(e.duration)
                    THEN { dayAfter(d) : d \in tokens } ELSE {})

\* C14: a check that involves a recurring event with a token that is no
\* weekday, or with no day list, fails with an error: it returns neither null
\* nor a conflict, and no conflict between recurring events names a weekday
\* that a malformed token put into a day set.
C14_MalformedFailsLoud ==
    /\ MalformedInvolved => result.kind = "error"
    /\ \A i \in 1..Len(existing) :
          (/\ Called /\ candidate.is_recurring /\ existing[i].is_recurring
           /\ result # NULL /\ result.name = existing[i].name) =>
              namedDays(result) \cap dayOrderSet \subseteq occupiedDays(existing[i])

\* the first part of C14 alone: no result for a malformed event
C14_NoVerdictOnMalformed ==
    MalformedInvolved => result.kind = "error"

\* the second part of C14 alone: no weekday out of a malformed token
C14_NoDayFromMalformedToken ==
    \A i \in 1..Len(existing) :
        (/\ Called /\ candidate.is_recurring /\ existing[i].is_recurring
         /\ result # NULL /\ result.name = existing[i].name) =>
            namedDays(result) \cap dayOrderSet \subseteq occupiedDays(existing[i])

\* the event with its start instant spelled in the zone of a host at offset
respell(e, offset) ==
    [e EXCEPT !.start_time = formatLocal(parseInstant(e.start_time), offset)]

\* what the UTC revision guarantees: the result is the same however the host
\* spells the start instants
C17_UtcRevisionSameResult ==
    Called =>
        \A o \in CheckOffsets :
            checkEventConflicts(respell(candidate, o),
                                <<respell(existing[1], o)>>, calledAt) = result

\* C17: for fixed input instants the verdict of checkEventConflicts is the
\* same for every timezone offset of the host, in the UTC revision and in
\* the local-time one.
C17_SameVerdictEveryOffset ==
    Called =>
        \A o \in CheckOffsets :
            /\ checkEventConflicts(respell(candidate, o),
                                   <<respell(existing[1], o)>>, calledAt) = result
            /\ (checkEventConflicts_v0(candidate, existing, o) = NULL)
                   <=> (resultV0 = NULL)

\* the event with its anchor moved to calendar date d, same UTC time of day
moveAnchor(e, d) ==
    [e EXCEPT !.start_time = toISOString((d * 1440) + timeOfDay(e))]

\* one of the two events is recurring and the other is one-time
OneTimeVsRecurring == A.is_recurring # B.is_recurring

\* the pair with the anchor of its recurring event moved to date d
candidateMoved(d) == IF A.is_recurring THEN moveAnchor(A, d) ELSE A
existingMoved(d) == IF B.is_recurring THEN moveAnchor(B, d) ELSE B

\* what the UTC revision guarantees: the anchor date of the recurring event
\* of a one-time/recurring pair does not affect the verdict
C18_UtcRevisionAnchorFree ==
    (Called /\ OneTimeVsRecurring) =>
        \A d \in Dates :
            (checkEventConflicts(candidateMoved(d), <<existingMoved(d)>>,
                                 calledAt) = NULL) <=> (result = NULL)

\* C18: for a one-time event against a recurring one, moving the recurring
\* event's anchor to any other calendar date with the same UTC time of day
\* never changes the verdict, whichever of the two is the candidate, in the
\* UTC revision and in the local-time one.
C18_AnchorDateIrrelevant ==
    (Called /\ OneTimeVsRecurring) =>
        \A d \in Dates :
            /\ (checkEventConflicts(candidateMoved(d), <<existingMoved(d)>>,
                                    calledAt) = NULL) <=> (result = NULL)
            /\ (checkEventConflicts_v0(candidateMoved(d), <<existingMoved(d)>>,
                                       tz) = NULL) <=> (resultV0 = NULL)

\* the weekday lists a one-time event may carry
CarriedDays == DayLists \cup { <<>>, <<"SU">>, <<"XX">> }

withDays(e, days) == [e EXCEPT !.recurring_days = days]

\* the event with each weekday list it may carry when it is one-time, the
\* event alone when it is recurring
otherDays(e) ==
    IF e.is_recurring THEN {e} ELSE { withDays(e, days) : days \in CarriedDays }

\* C19: changing the recurring_days of an event whose is_recurring is false,
\* candidate or existing, never changes the result of checkEventConflicts.
C19_DaysOfOneTimeIgnored ==
    Called =>
        \A a \in otherDays(A), b \in otherDays(B) :
            checkEventConflicts(a, <<b>>, calledAt) = result

\* a one-time candidate conflicts with a recurring event, and would not with
\* some of the carried weekday lists if it were recurring itself
C19_Witness ==
    /\ Called /\ ~A.is_recurring /\ B.is_recurring /\ result # NULL
    /\ \E da \in CarriedDays :
          checkEventConflicts([withDays(A, da) EXCEPT !.is_recurring = TRUE],
                              existing, calledAt) = NULL

\* entry i of the list is the candidate's own stored record
Excluded(i) == candidate.id # NoId /\ existing[i].id = candidate.id

pairwise(i) == checkEventPairConflict(candidate, existing[i], calledAt)

\* entry i is not excluded and its pairwise check reports a conflict
Positive(i) == ~Excluded(i) /\ pairwise(i) # NULL

FirstPositive ==
    CHOOSE i \in 1..Len(existing) :
        Positive(i) /\ \A j \in 1..(i - 1) : ~Positive(j)

\* C20: checkEventConflicts returns null exactly when the pairwise check is
\* negative for every non-excluded entry; otherwise it returns the message
\* of the first entry in list order whose pairwise check is positive, with
\* that entry's name, in the date form when the entry is one-time and in the
\* 'recurring on' form when it is recurring.
C20_FirstPositiveEntry ==
    Called =>
        IF \A i \in 1..Len(existing) : ~Positive(i)
        THEN result = NULL
        ELSE /\ result = pairwise(FirstPositive)
             /\ result.name = existing[FirstPositive].name
             /\ result.kind = IF existing[FirstPositive].is_recurring
                              THEN "recurring" ELSE "date"

\* two positive entries with different messages, or an excluded first entry
\* followed by a positive one
C20_Witness ==
    /\ Called /\ Len(existing) = 2 /\ Positive(2)
    /\ \/ Positive(1) /\ pairwise(1) # pairwise(2) /\ result = pairwise(1)
       \/ Excluded(1) /\ result = pairwise(2)

(***************************************************************************)
(* Occupied time, as the data model defines it                             *)
(***************************************************************************)
\* the starts of the occurrences of an event in the weeks -1..2
occurrenceStarts(e) ==
    IF e.is_recurring
    THEN { (((7 * k) + dayIndex(d)) * 1440) + timeOfDay(e) :
             k \in (0 - 1)..2, d \in daySet(e) }
    ELSE { startOf(e) }

\* two events occupy a common minute
shareMinute(e1, e2) ==
    \E s1 \in occurrenceStarts(e1), s2 \in occurrenceStarts(e2) :
        s1 < s2 + e2.duration /\ s2 < s1 + e1.duration

\* the POST/PUT of a call has been issued
writeIssued(c) ==
    \/ c.pc \in {"writing", "done"}
    \/ c.pc = "failed" /\ c.error = "http"

\* C1: after non-interleaved service operations no two stored events occupy
\* a common minute.
C1_NoDoubleBooking ==
    ~interleaved =>
        \A i, j \in 1..Len(store) : i < j => ~shareMinute(store[i], store[j])

\* the fetched events other than the one the call updates
othersOf(c) == SelectSeq(c.fetched, LAMBDA e : calendarId(e) # c.id)

\* C7: an update is checked as if the stored event it updates were absent:
\* its verdict is the verdict against the other fetched events alone.
C7_SelfExclusion ==
    \A s \in Slots :
        (calls[s].op = "update" /\ calls[s].verdict # NotCalled) =>
            calls[s].verdict = checkEventConflicts(calls[s].event, othersOf(calls[s]), now)

\* a create or update call that has issued its POST/PUT holds a null verdict,
\* the result of checking the list it fetched
C8_WriteOnlyAfterNull ==
    \A s \in Slots :
        (calls[s].op \in {"create", "update"} /\ writeIssued(calls[s])) =>
            /\ calls[s].verdict = NULL
            /\ checkEventConflicts(calls[s].event, checkedList(calls[s], calls[s].fetched), now) = NULL

\* the step in which the check returns a message issues no write and leaves
\* the store as it is
C8_ConflictLeavesStore ==
    \A s \in Slots :
        (calls[s].pc = "fetching" /\ calls'[s].error = "conflict") =>
            /\ store' = store
            /\ ~writeIssued(calls'[s])

\* C8: a create or update call issues its POST/PUT only after the check of
\* the list it fetched returned null, and a call whose check returns a
\* message issues no POST/PUT and leaves the stored events unchanged.
C8_CheckBeforeWrite ==
    [] C8_WriteOnlyAfterNull /\ [][C8_ConflictLeavesStore]_vars

C8_Witness ==
    \E s, t \in Slots :
        /\ calls[s].op = "create" /\ writeIssued(calls[s]) /\ Len(calls[s].fetched) > 0
        /\ calls[t].op = "create" /\ calls[t].error = "conflict"
        /\ Len(store) = 1

\* the list a finished check of a create or update call was made on
CheckedByCall(c) == checkedList(c, c.fetched)

\* C12: a conflict found by createEvent or updateEvent reaches the subscriber
\* as an EventConflictError whose conflictDetails is the message the check
\* returned; an invalid start time, a failed fetch and a failed POST/PUT
\* reach it as errors of another class.
C12_TypedConflict ==
    \A s \in Slots :
        LET c == calls[s]
        IN (c.op \in {"create", "update"} /\ c.pc = "failed") =>
             /\ c.thrown # NoError
             /\ (c.verdict \notin {NULL, NotCalled}) =>
                   /\ c.thrown.class = "EventConflictError"
                   /\ c.thrown.conflictDetails =
                        checkEventConflicts(c.event, CheckedByCall(c), now)
             /\ (c.verdict \in {NULL, NotCalled}) =>
                   c.thrown.class # "EventConflictError"

\* a create rejected for its conflict with E1 next to a create rejected for
\* its start time
C12_Witness ==
    \E s, t \in Slots :
        /\ calls[s].op = "create" /\ calls[s].pc = "failed"
        /\ calls[s].thrown.class = "EventConflictError"
        /\ calls[s].thrown.conflictDetails.name = "E1"
        /\ calls[t].op = "create" /\ calls[t].pc = "failed"
        /\ calls[t].thrown = Error("Invalid start time provided for event")

\* invalid input as the error taxonomy lists it
InvalidInput(e) ==
    \/ ~isValid(e.start_time)
    \/ e.duration <= 0
    \/ e.is_recurring /\ Len(e.recurring_days) = 0

\* C13: a candidate with an unparseable start time, a non-positive duration
\* or a recurring flag without days is rejected by createEvent and
\* updateEvent with a validation error before the event list is fetched and
\* before the check runs, and such an event is never stored.
C13_InvalidRejected ==
    /\ \A s \in Slots :
          LET c == calls[s]
          IN (c.op \in {"create", "update"} /\ InvalidInput(c.event)) =>
               /\ c.pc = "failed"
               /\ c.error = "invalid"
               /\ c.fetch = "none"
               /\ c.verdict = NotCalled
    /\ \A i \in 1..Len(store) : ~InvalidInput(store[i])

\* the part of C13 the service keeps: an unparseable start time
C13_UnparseableRejected ==
    \A s \in Slots :
        LET c == calls[s]
        IN (c.op \in {"create", "update"} /\ ~isValid(c.event.start_time)) =>
             /\ c.pc = "failed"
             /\ c.error = "invalid"
             /\ c.fetch = "none"
             /\ c.verdict = NotCalled

\* C15: when the fetch of the event list fails in createEvent or updateEvent,
\* the call issues no POST/PUT and ends with an error; a POST/PUT is issued
\* only after a check, with result null, of a list that was fetched.
C15_FailedFetchNoWrite ==
    \A s \in Slots :
        LET c == calls[s]
        IN c.op \in {"create", "update"} =>
             /\ c.fetch = "failed" =>
                   (~writeIssued(c) /\ c.pc = "failed" /\ c.thrown # NoError)
             /\ writeIssued(c) => (c.fetch = "ok" /\ c.verdict = NULL)

\* the fetch of a create failed while the store held an event it conflicts with
C15_Witness ==
    \E s \in Slots :
        /\ calls[s].op = "create" /\ calls[s].fetch = "failed"
        /\ calls[s].thrown = Error("Failed to fetch events")
        /\ Len(store) > 0
        /\ checkEventConflicts(calls[s].event, store, now) # NULL

\* the store holds an event the check reports a conflict with for event e
ConflictsWithStore(e) == checkEventConflicts(e, store, now) # NULL

\* a create whose GET is answered while the store conflicts with its event is
\* rejected with that conflict
RejectedOnFreshList ==
    \A s \in Slots :
        (/\ calls[s].op = "create" /\ calls[s].pc = "fetching"
         /\ calls'[s].fetch = "ok"
         /\ ConflictsWithStore(calls[s].event)) =>
            (calls'[s].pc = "failed" /\ calls'[s].error = "conflict")

\* a POST committed into a store that conflicts with its event belongs to a
\* call that was interleaved with another
CommittedOverConflictIsRace ==
    \A s \in Slots :
        (/\ calls[s].op = "create" /\ calls[s].pc = "writing"
         /\ calls'[s].pc = "done"
         /\ ConflictsWithStore(calls[s].event)) => interleaved

\* what holds of the race for the conflicts the check reports: two creates
\* the check sets against each other are both written only when they
\* interleave, and a create answered with a conflicting list is rejected
C16_RaceOnlyInterleaved ==
    [][RejectedOnFreshList /\ CommittedOverConflictIsRace]_vars

\* C16: check-then-write is not atomic: interleaved creates of overlapping
\* events can both be written, while a create that is not interleaved with
\* another call and whose event shares a minute with an event of the list it
\* fetched is rejected with a conflict.
C16_SequentialRejected ==
    \A s \in Slots :
        LET c == calls[s]
        IN (/\ c.op = "create" /\ c.fetch = "ok" /\ ~interleaved
            /\ \E i \in 1..Len(c.fetched) : shareMinute(c.event, c.fetched[i])) =>
               (c.pc = "failed" /\ c.error = "conflict")

\* both creates fetched the empty list, both checks returned null and both
\* overlapping events are stored
C16_Witness ==
    /\ interleaved
    /\ Len(store) = 2
    /\ checkEventConflicts(store[2], <<store[1]>>, now) # NULL
    /\ \A s \in Slots :
          /\ calls[s].op = "create" /\ calls[s].pc = "done"
          /\ calls[s].fetched = <<>> /\ calls[s].verdict = NULL

\* C9: every write that sets a start time or a duration is issued only
\* after a conflict check that returned null.
C9_EveryTimeWriteChecked ==
    \A s \in Slots :
        (calls[s].op \in {"create", "update", "updateTime"} /\ writeIssued(calls[s])) =>
            calls[s].verdict = NULL


(***************************************************************************)
(* checkTimeOverlap against the half-open interval test                    *)
(***************************************************************************)
\* minute offsets of the two ranges from the midnight that starts the UTC
\* day of the first range
referenceMidnight == startOfDay(startOf(A))
s1 == startOf(A) - referenceMidnight
e1 == s1 + A.duration
s2 == startOf(B) - referenceMidnight
e2 == s2 + B.duration

\* C21: for minute offsets s1 < e1 and s2 < e2 from the same reference
\* midnight, offsets of 1440 or more included, checkTimeOverlap returns true
\* exactly when s1 < e2 and s2 < e1.
C21_HalfOpenTest ==
    (Called /\ s1 < e1 /\ s2 < e2 /\ s2 >= 0) =>
        (result.value <=> (s1 < e2 /\ s2 < e1))

\* an overlap found between ranges that reach past the first day, whose
\* starts differ
C21_Witness ==
    /\ Called /\ s2 >= 0 /\ s1 # s2
    /\ e1 >= 1440 /\ s2 >= 1440
    /\ result.value


(***************************************************************************)
(* Back-to-back events                                                     *)
(***************************************************************************)
\* the UTC weekday on which a one-time event starts
weekdayOf(e) == reverseDayMap(day(startOf(e)))

\* the two events fall on the same day: the same UTC date for two one-time
\* events, a common weekday otherwise
FallOnSameDay(x, y) ==
    IF ~x.is_recurring /\ ~y.is_recurring
    THEN utcDate(startOf(x)) = utcDate(startOf(y))
    ELSE IF x.is_recurring /\ y.is_recurring
    THEN daySet(x) \cap daySet(y) # {}
    ELSE IF x.is_recurring THEN weekdayOf(y) \in daySet(x)
    ELSE weekdayOf(x) \in daySet(y)

\* x ends within the day at the time of day at which y starts
EndsWhereStarts(x, y) == timeOfDay(x) + x.duration = timeOfDay(y)

\* some occurrence of x ends at the minute at which one of y starts, and
\* the two events occupy no common minute
Touching(x, y) ==
    /\ ~shareMinute(x, y)
    /\ \E sx \in occurrenceStarts(x), sy \in occurrenceStarts(y) :
          sx + x.duration = sy

BackToBack ==
    /\ FallOnSameDay(A, B)
    /\ \/ EndsWhereStarts(A, B) \/ EndsWhereStarts(B, A)
       \/ Touching(A, B) \/ Touching(B, A)

\* C22: when two events fall on the same day and one ends at exactly the
\* minute the other starts, checkEventConflicts reports no conflict, for
\* every recurrence combination.
C22_BackToBackFree == (Called /\ BackToBack) => result = NULL

\* a one-time candidate ending on its date where a one-time event of the
\* same date starts, checked and found free
C22_Witness ==
    /\ Called /\ BackToBack /\ BothOneTime
    /\ EndsWhereStarts(A, B) /\ result = NULL


(***************************************************************************)
(* Day expansion                                                           *)
(***************************************************************************)
\* the days of an event together with the weekday after each of them
withFollowing(days) == days \cup { dayAfter(d) : d \in days }

asSet(list) == { list[i] : i \in 1..Len(list) }

noDuplicates(list) == \A i, j \in 1..Len(list) : i # j => list[i] # list[j]

expandedSet(e) ==
    IF e.duration >= 1440 THEN withFollowing(daySet(e)) ELSE daySet(e)

\* the comparison of the two times of day on one reference date
TimesOfDayOverlap ==
    /\ timeOfDay(A) < timeOfDay(B) + B.duration
    /\ timeOfDay(B) < timeOfDay(A) + A.duration

\* what holds of the code: the candidate's days are intersected with the
\* expanded days of the existing event
C24_ExistingExpandedOnly ==
    (Called /\ BothRecurring) =>
        (result # NULL <=>
            (daySet(A) \cap expandedSet(B) # {} /\ TimesOfDayOverlap))

\* C24: for two recurring events the expanded day sets of both events are
\* intersected, the following weekdays of a multi-day candidate included,
\* and the times of day are compared exactly when that intersection is not
\* empty.
C24_BothExpandedSets ==
    (Called /\ BothRecurring) =>
        (result # NULL <=>
            (expandedSet(A) \cap expandedSet(B) # {} /\ TimesOfDayOverlap))


(***************************************************************************)
(* The day match of a recurring event against a one-time event             *)
(***************************************************************************)
\* the UTC weekday of a one-time event, and the following weekday when the
\* event is multi-day
oneTimeDays(e) ==
    IF e.duration >= 1440 THEN withFollowing({weekdayOf(e)}) ELSE {weekdayOf(e)}

\* the day set of an event in the day match of a mixed pair
matchDays(e) == IF e.is_recurring THEN expandedSet(e) ELSE oneTimeDays(e)

\* what holds of the code: only the existing event's side is expanded
C25_ExistingSideOnly ==
    (Called /\ OneTimeVsRecurring) =>
        (result # NULL <=>
            /\ TimesOfDayOverlap
            /\ IF A.is_recurring THEN daySet(A) \cap oneTimeDays(B) # {}
               ELSE weekdayOf(A) \in expandedSet(B))

\* C25: for a recurring event against a one-time event, in either role, the
\* one-time event's UTC weekday, with the following weekday when it is
\* multi-day, is intersected with the recurring event's expanded day set,
\* and the times of day are compared exactly when the intersection is not
\* empty.
C25_MixedDayMatch ==
    (Called /\ OneTimeVsRecurring) =>
        (result # NULL <=>
            (matchDays(A) \cap matchDays(B) # {} /\ TimesOfDayOverlap))


(***************************************************************************)
(* Symmetry of the pairwise relation                                       *)
(***************************************************************************)
\* the two events with their roles exchanged: the existing one offered as a
\* new candidate, the candidate as a stored event
asCandidate(e) == [e EXCEPT !.id = NoId]
asStored(e) == [e EXCEPT !.id = NumId(2)]

swapped == checkEventConflicts(asCandidate(B), <<asStored(A)>>, calledAt)

\* C26: checkEventConflicts(A, [B]) is null if and only if
\* checkEventConflicts(B, [A]) is null, for every recurrence combination
\* and all durations.
C26_Symmetric == Called => (result = NULL <=> swapped = NULL)

\* where the relation is symmetric: neither event is multi-day
C26_SymmetricBelowOneDay ==
    (Called /\ A.duration < 1440 /\ B.duration < 1440) =>
        (result = NULL <=> swapped = NULL)


(***************************************************************************)
(* The verdict against the occupied time                                   *)
(***************************************************************************)
\* C27: whenever checkEventConflicts reports a conflict between a candidate
\* and an existing event, the two events occupy a common minute.
C27_NoFalseConflict == (Called /\ result # NULL) => shareMinute(A, B)

\* where no false conflict arises: neither event is multi-day and no
\* occurrence crosses midnight
C27_NoFalseConflictWithinDay ==
    (/\ Called /\ result # NULL
     /\ timeOfDay(A) + A.duration <= 1440
     /\ timeOfDay(B) + B.duration <= 1440
     /\ A.duration < 1440 /\ B.duration < 1440) => shareMinute(A, B)


\* C28: whenever a candidate and an existing event occupy a common minute,
\* checkEventConflicts reports a conflict.
C28_NoMissedConflict == (Called /\ shareMinute(A, B)) => result # NULL

\* where no conflict is missed: neither event is multi-day and no
\* occurrence crosses midnight
C28_NoMissedConflictWithinDay ==
    (/\ Called /\ shareMinute(A, B)
     /\ timeOfDay(A) + A.duration <= 1440
     /\ timeOfDay(B) + B.duration <= 1440
     /\ A.duration < 1440 /\ B.duration < 1440) => result # NULL


(***************************************************************************)
(* The two UTC revisions                                                   *)
(***************************************************************************)
\* C29: the revision that first tests 'same day and same minute' and then
\* compares minute offsets and the revision that compares instants return
\* null for exactly the same inputs with positive durations.
C29_RevisionsAgree ==
    (Called /\ A.duration > 0 /\ B.duration > 0) =>
        (result9 = NULL <=> result = NULL)

\* two one-time events of different durations with the identical start:
\* the shortcut of the earlier revision fires, and the later one agrees
C29_Witness ==
    /\ Called /\ BothOneTime /\ startOf(A) = startOf(B)
    /\ A.duration # B.duration
    /\ result9 # NULL /\ result # NULL

====
